---- MODULE Spec2Model ----
(***************************************************************************)
(* Model of the draw engine of src/src/App.tsx (LuckyNumberGenerator):     *)
(* the React state of the component, the timer table of the browser, and   *)
(* one action per event handler or timer callback.                         *)
(*                                                                         *)
(* Strings of decimal digits ('007') are sequences of digits (<<0,0,7>>);  *)
(* the empty string is <<>>.  Owner names are strings, '' is "".           *)
(***************************************************************************)
EXTENDS Integers, Sequences, FiniteSets, TLC

VARIABLES
  settings,          \* useState(defaultSettings): the fields the engine reads
  entries,           \* useState<Entry[]>: the roster
  remainingEntries,  \* useState<Entry[]>: the roster's remaining subset
  isGenerating,      \* useState(false)
  finalNumber,       \* useState('')
  finalUser,         \* useState('')
  animatingDigits,   \* useState<string[]>([])
  stoppedDigits,     \* useState<number[]>([])
  winners,           \* useState<Winner[]>([]), newest first
  intervalRefs,      \* useRef<number[]>([]): handles of the spin intervals
  activeIntervals,   \* the browser's live setInterval handles
  timeouts,          \* the browser's pending setTimeout callbacks, in creation order
  clock,             \* the time now, in ms counted from the last accepted draw request
  op,                \* the handler or callback that ran last
  outcome,           \* what the last startGeneration call did
  remainingPos,      \* roster position of each element of remainingEntries
  drawnPos,          \* roster positions drawn since the roster was loaded
  draw,              \* what the last accepted draw captured when it started
  stopAt,            \* <<slot, time it was due>> of every stop callback of that draw
  settleAt,          \* <<time it ran>> of the settle callback of that draw, <<>> before it
  resetInFlight,     \* resetToDefaults ran since that draw was accepted
  sampler,           \* the call of generateRandomNumber in progress: its locals
  isSoundEnabled,    \* useState(true)
  winnerIds,         \* the id of each record of winners (Date.now() at settle),
                     \* in ms counted from the last accepted draw request
  waited             \* the ms Wait steps let pass since the last callback or
                     \* accepted draw request

vars == <<settings, entries, remainingEntries, isGenerating, finalNumber,
          finalUser, animatingDigits, stoppedDigits, winners, intervalRefs,
          activeIntervals, timeouts, clock, op, outcome, remainingPos,
          drawnPos, draw, stopAt, settleAt, resetInFlight, sampler,
          isSoundEnabled, winnerIds, waited>>

\* The state the presentation layer observes, and the timers.
session == <<isGenerating, finalNumber, finalUser, animatingDigits,
             stoppedDigits, entries, remainingEntries, winners,
             intervalRefs, activeIntervals, timeouts>>

-----------------------------------------------------------------------------
(* Bounds of the model *)

\* Accepted draws stop once the winners log holds this many records.
MaxWinners == 2

\* Math.random() in a spin tick yields a digit in 0..MaxTickDigit.
MaxTickDigit == 1

\* Math.random() in the sampler yields a multiple of 1 / RandomGrid, or a
\* value just below 1.
RandomGrid == 1

\* The browser runs a timeout at most this many ms after it was due.
MaxLate == 1

\* The user lets at most this many ms pass after the last callback or accepted
\* draw request.
MaxIdle == 1

-----------------------------------------------------------------------------
(* Program constants *)

\* The delay of the settle timeout, counted from the stop of slot 0.
SettleDelay == 200

\* The bound of the sampler's retry loop: while (attempts < 1000).
MaxAttempts == 1000

\* What reading an array index that was never assigned gives (a hole).
Undefined == -1
\* The return value of generateRandomNumber when it gives up.
Null == <<-1>>

\* The values the timing inputs fall back to when they are emptied.
defaultSettings_fallbacks ==
  [digits |-> 3, minValue |-> 0, maxValue |-> 999,
   generatingTime |-> 500, digitStopDelay |-> 0]

defaultSettings ==
  [digits |-> 3, minValue |-> 0, maxValue |-> 999,
   generatingTime |-> 1500, digitStopDelay |-> 300]

-----------------------------------------------------------------------------
(* Input domains *)

Entry(n, u) == [number |-> n, user |-> u]

\* The spreadsheets handleExcelUpload is given (rows after the header row).
Rosters ==
  { <<Entry(7, "An"), Entry(7, "An"), Entry(42, "Binh")>> }

\* The spreadsheets of the runs in which rosters replace one another: the
\* roster above, one with a three-digit number, and a sheet without data rows.
RosterInputs ==
  Rosters \cup { <<Entry(105, "Chi")>>, <<>> }

\* The values typed into the settings panel: the range settings ...
SettingInputs ==
  { <<"digits", 1>>, <<"minValue", 1>>, <<"maxValue", 1>> }

\* ... and the timing settings.
TimingInputs ==
  { <<"digits", 1>>, <<"generatingTime", 1000>> }

\* The one setting changed in the runs checked for progress.
ProgressInputs ==
  { <<"digits", 1>> }

\* One value for each of the five settings.
ConfigInputs ==
  { <<"digits", 1>>, <<"minValue", 9>>, <<"maxValue", 9>>,
    <<"generatingTime", 1000>>, <<"digitStopDelay", 0>> }

\* A range whose largest number is wider than the slot count: digits 1, then
\* maxValue 12.
WideInputs ==
  { <<"digits", 1>>, <<"maxValue", 12>> }

\* A typed digitStopDelay below 0, which the input keeps (only an empty input
\* becomes 0): the left slots stop first, and the draw settles while the stops
\* of the slots to the right are pending.
IdInputs ==
  { <<"digitStopDelay", -300>> }

TickDigits == 0..MaxTickDigit

\* The settings generateRandomNumber is called under when its loop is followed
\* step by step: ranges of up to three numbers, the empty range included.
SamplerSettings ==
  { [defaultSettings EXCEPT !.digits = d, !.minValue = lo, !.maxValue = hi] :
      d \in 1..2, lo \in 0..1, hi \in 0..2 }

\* The exclusion lists it is called with: '0' and '1' in both widths, with
\* repetitions.
ExcludedLists ==
  { <<>>, <<<<0>>>>, <<<<1>>>>, <<<<0, 1>>>>, <<<<0>>, <<1>>>>, <<<<1>>, <<1>>>>,
    <<<<0, 0>>, <<0, 1>>>>, <<<<1>>, <<0, 2>>>>, <<<<0>>, <<1>>, <<2>>>> }

-----------------------------------------------------------------------------
(* Strings and arrays *)

Max(a, b) == IF a > b THEN a ELSE b

RECURSIVE Pow10(_)
Pow10(d) == IF d = 0 THEN 1 ELSE 10 * Pow10(d - 1)

\* Number.prototype.toString() of a non-negative integer.
RECURSIVE toString(_)
toString(n) == IF n < 10 THEN <<n>> ELSE toString(n \div 10) \o <<n % 10>>

\* String.prototype.padStart(targetLength, '0').
padStart(str, targetLength) ==
  IF Len(str) >= targetLength THEN str
  ELSE [k \in 1..(targetLength - Len(str)) |-> 0] \o str

\* The number a string of digits denotes.
RECURSIVE toNumber(_)
toNumber(str) ==
  IF Len(str) = 0 THEN 0
  ELSE 10 * toNumber(SubSeq(str, 1, Len(str) - 1)) + str[Len(str)]

\* Array.prototype.includes.
includes(arr, x) == \E k \in 1..Len(arr) : arr[k] = x

\* arr[i] of a JavaScript array, i counted from 0.
At(arr, i) == IF i + 1 <= Len(arr) THEN arr[i + 1] ELSE Undefined

\* const a = [...arr]; a[i] = v: assigning past the end leaves holes.
ArraySet(arr, i, v) ==
  IF i + 1 <= Len(arr) THEN [arr EXCEPT ![i + 1] = v]
  ELSE arr \o [k \in 1..(i - Len(arr)) |-> Undefined] \o <<v>>

\* The sequence without its element number index, counted from 0.
RemoveAt(arr, index) ==
  [k \in 1..(Len(arr) - 1) |-> IF k <= index THEN arr[k] ELSE arr[k + 1]]

\* A filter that compares values: it drops every element equal to the drawn one.
filterOut_byValue(arr, index) ==
  LET RECURSIVE keep(_)
      keep(rest) ==
        IF rest = <<>> THEN <<>>
        ELSE IF Head(rest) = arr[index + 1] THEN keep(Tail(rest))
        ELSE <<Head(rest)>> \o keep(Tail(rest))
  IN  keep(arr)

\* remainingEntries.filter((_, i) => i !== index)
filterOut(arr, index) == RemoveAt(arr, index)

\* winners.map(w => w.number)
WinnerNumbers == [k \in 1..Len(winners) |-> winners[k].number]

\* The width detection reading the first row only.
MaxNumber_first(es) == es[1].number

\* Math.max(...validEntries.map(e => e.number))
RECURSIVE MaxNumber(_)
MaxNumber(es) ==
  IF Len(es) = 1 THEN es[1].number
  ELSE Max(es[1].number, MaxNumber(Tail(es)))

-----------------------------------------------------------------------------
(* generateRandomNumber *)

\* The count check with > for >=.
allDrawn_strict(excludedNumbers) ==
  Len(excludedNumbers) > settings.maxValue - settings.minValue + 1

\* The count check of the sampler: every possible number has been drawn.
allDrawn(excludedNumbers) ==
  Len(excludedNumbers) >= settings.maxValue - settings.minValue + 1

\* The formatting without the padding.
format_noPad(num) == toString(num)

\* num.toString().padStart(digits, '0')
format(num) == padStart(toString(num), settings.digits)

\* Math.floor(Math.random() * n) for the values of Math.random() the model
\* follows: k / RandomGrid for every k < RandomGrid, and one just below 1.
floorRandom(n) ==
  {(k * n) \div RandomGrid : k \in 0..(RandomGrid - 1)} \cup {n - 1}

\* const num = Math.floor(Math.random() * (maxValue - minValue + 1)) + minValue
SampleNums ==
  {f + settings.minValue :
     f \in floorRandom(settings.maxValue - settings.minValue + 1)}

\* A sample of the retry loop can be rejected: some number of the range has
\* an excluded formatted value, so all 1000 attempts can miss.
CanMiss(excludedNumbers) ==
  \E k \in 1..Len(excludedNumbers) :
    LET n == toNumber(excludedNumbers[k])
    IN  /\ settings.minValue <= n /\ n <= settings.maxValue
        /\ format(n) = excludedNumbers[k]

\* The sampler without the includes test of its loop.
generateRandomNumber_noExclusion(excludedNumbers) ==
  IF allDrawn(excludedNumbers) THEN {Null}
  ELSE {format(num) : num \in SampleNums}

\* The values generateRandomNumber can return.
generateRandomNumber(excludedNumbers) ==
  IF allDrawn(excludedNumbers) THEN {Null}
  ELSE {format(num) : num \in {n \in SampleNums : ~includes(excludedNumbers, format(n))}}
         \cup (IF CanMiss(excludedNumbers) THEN {Null} ELSE {})

-----------------------------------------------------------------------------
(* Initial state: the component after its first render *)

NoDraw ==
  [mode |-> "none", final |-> <<>>, userName |-> "", excluded |-> <<>>,
   digits |-> 0, minValue |-> 0, maxValue |-> 0,
   generatingTime |-> 0, digitStopDelay |-> 0]

\* No call of generateRandomNumber is in progress.
NotCalled ==
  [pc |-> "idle", excludedNumbers |-> <<>>, attempts |-> 0, tries |-> 0,
   result |-> Null]

Init ==
  /\ settings = defaultSettings
  /\ entries = <<>>
  /\ remainingEntries = <<>>
  /\ isGenerating = FALSE
  /\ finalNumber = <<>>
  /\ finalUser = ""
  /\ animatingDigits = <<>>
  /\ stoppedDigits = <<>>
  /\ winners = <<>>
  /\ intervalRefs = <<>>
  /\ activeIntervals = {}
  /\ timeouts = <<>>
  /\ clock = 0
  /\ op = "init"
  /\ outcome = "none"
  /\ remainingPos = <<>>
  /\ drawnPos = <<>>
  /\ draw = NoDraw
  /\ stopAt = <<>>
  /\ settleAt = <<>>
  /\ resetInFlight = FALSE
  /\ sampler = NotCalled
  /\ isSoundEnabled = TRUE
  /\ winnerIds = <<>>
  /\ waited = 0

-----------------------------------------------------------------------------
(* Settings panel and roster ingestion *)

\* The digits, minValue and maxValue inputs are disabled while a roster is loaded.
Locked(key) == key \in {"digits", "minValue", "maxValue"} /\ Len(entries) > 0

\* handleSettingChange as the inputs' onChange handlers call it; the digits
\* input also sets maxValue to 10^digits - 1.
handleSettingChange(key, value) ==
  /\ ~Locked(key)
  /\ settings' =
       IF key = "digits"
       THEN [settings EXCEPT !.digits = value, !.maxValue = Pow10(value) - 1]
       ELSE [settings EXCEPT ![key] = value]
  /\ settings' # settings
  /\ op' = "handleSettingChange"
  /\ outcome' = "none"
  /\ UNCHANGED <<entries, remainingEntries, isGenerating, finalNumber, finalUser,
                 animatingDigits, stoppedDigits, winners, intervalRefs,
                 activeIntervals, timeouts, clock, remainingPos,
                 drawnPos, draw, stopAt, settleAt, resetInFlight, sampler,
                 isSoundEnabled, winnerIds, waited>>

\* An ingestion that adds the sheet's rows to the entries still to draw.
handleExcelUpload_addsToRemaining(validEntries) ==
  /\ settings' =
       IF Len(validEntries) > 0
       THEN LET detectedDigits == Len(toString(MaxNumber(validEntries)))
            IN  [settings EXCEPT !.digits = detectedDigits,
                                 !.maxValue = Pow10(detectedDigits) - 1,
                                 !.minValue = 0]
       ELSE settings
  /\ entries' = validEntries
  /\ remainingEntries' = remainingEntries \o validEntries
  /\ remainingPos' = [k \in 1..(Len(remainingEntries) + Len(validEntries)) |-> k]
  /\ drawnPos' = <<>>
  /\ op' = "handleExcelUpload"
  /\ outcome' = "none"
  /\ UNCHANGED <<isGenerating, finalNumber, finalUser, animatingDigits,
                 stoppedDigits, winners, intervalRefs, activeIntervals, timeouts,
                 clock, draw, stopAt, settleAt, resetInFlight, sampler,
                 isSoundEnabled, winnerIds, waited>>

\* handleExcelUpload, once the FileReader has loaded the file.
handleExcelUpload(validEntries) ==
  /\ settings' =
       IF Len(validEntries) > 0
       THEN LET detectedDigits == Len(toString(MaxNumber(validEntries)))
            IN  [settings EXCEPT !.digits = detectedDigits,
                                 !.maxValue = Pow10(detectedDigits) - 1,
                                 !.minValue = 0]
       ELSE settings
  /\ entries' = validEntries
  /\ remainingEntries' = validEntries
  /\ remainingPos' = [k \in 1..Len(validEntries) |-> k]
  /\ drawnPos' = <<>>
  /\ op' = "handleExcelUpload"
  /\ outcome' = "none"
  /\ UNCHANGED <<isGenerating, finalNumber, finalUser, animatingDigits,
                 stoppedDigits, winners, intervalRefs, activeIntervals, timeouts,
                 clock, draw, stopAt, settleAt, resetInFlight, sampler,
                 isSoundEnabled, winnerIds, waited>>

\* The Clear Data button of the roster panel, shown while a roster is loaded.
clearData ==
  /\ Len(entries) > 0
  /\ entries' = <<>>
  /\ remainingEntries' = <<>>
  /\ remainingPos' = <<>>
  /\ drawnPos' = <<>>
  /\ op' = "clearData"
  /\ outcome' = "none"
  /\ UNCHANGED <<settings, isGenerating, finalNumber, finalUser,
                 animatingDigits, stoppedDigits, winners, intervalRefs,
                 activeIntervals, timeouts, clock, draw, stopAt, settleAt,
                 resetInFlight, sampler, isSoundEnabled, winnerIds, waited>>

\* A Clear History that also clears the result shown on the stage.
clearHistory_clearsResult ==
  /\ winners # <<>>
  /\ winners' = <<>>
  /\ winnerIds' = <<>>
  /\ finalNumber' = <<>>
  /\ finalUser' = ""
  /\ op' = "clearHistory"
  /\ outcome' = "none"
  /\ UNCHANGED <<settings, entries, remainingEntries, isGenerating,
                 animatingDigits, stoppedDigits, intervalRefs,
                 activeIntervals, timeouts, clock, remainingPos,
                 drawnPos, draw, stopAt, settleAt, resetInFlight, sampler,
                 isSoundEnabled, waited>>

\* The history panel's Clear History button (after the confirm).
clearHistory ==
  /\ winners # <<>>
  /\ winners' = <<>>
  /\ winnerIds' = <<>>
  /\ op' = "clearHistory"
  /\ outcome' = "none"
  /\ UNCHANGED <<settings, entries, remainingEntries, isGenerating, finalNumber,
                 finalUser, animatingDigits, stoppedDigits, intervalRefs,
                 activeIntervals, timeouts, clock, remainingPos,
                 drawnPos, draw, stopAt, settleAt, resetInFlight, sampler,
                 isSoundEnabled, waited>>

-----------------------------------------------------------------------------
(* resetToDefaults *)

\* intervalRefs.current.forEach(interval => clearInterval(interval))
ClearIntervals == activeIntervals \ {intervalRefs[k] : k \in 1..Len(intervalRefs)}

resetToDefaults ==
  /\ settings' = defaultSettings
  /\ entries' = <<>>
  /\ remainingEntries' = <<>>
  /\ finalNumber' = <<>>
  /\ finalUser' = ""
  /\ animatingDigits' = <<>>
  /\ stoppedDigits' = <<>>
  /\ winners' = <<>>
  /\ winnerIds' = <<>>
  /\ activeIntervals' = ClearIntervals
  /\ intervalRefs' = <<>>
  /\ remainingPos' = <<>>
  /\ drawnPos' = <<>>
  /\ resetInFlight' = isGenerating
  /\ op' = "resetToDefaults"
  /\ outcome' = "none"
  \* no clearTimeout, no setIsGenerating: both are left as they are
  /\ UNCHANGED <<timeouts, isGenerating, clock, draw, stopAt, settleAt, sampler,
                 isSoundEnabled, waited>>

-----------------------------------------------------------------------------
(* startGeneration *)

\* startGeneration without its guard.
AlreadyRunning_never == FALSE

\* if (isGenerating) return;
AlreadyRunning == isGenerating

\* A slot array with one slot too many.
initialDigits_oneMore == [k \in 1..(settings.digits + 1) |-> 0]

\* Array(settings.digits).fill('0')
initialDigits == [k \in 1..settings.digits |-> 0]

\* The stagger counted from the left: i * stopDelay.
StopDelay_leftToRight(i) ==
  settings.generatingTime + i * settings.digitStopDelay

\* The delay of slot i's stop timeout: settings.generatingTime + delay.
StopDelay(i) ==
  settings.generatingTime + (settings.digits - 1 - i) * settings.digitStopDelay

\* The stop timeouts of a draw, in the order the loop creates them
\* (i = digits - 1 down to 0), with what each callback closes over.  setTimeout
\* runs a negative delay as the delay 0.
StopTimeouts(final, userName) ==
  [k \in 1..settings.digits |->
     LET i == settings.digits - k
     IN  [kind |-> "stop", i |-> i, due |-> Max(0, StopDelay(i)),
          final |-> final, userName |-> userName]]

\* A startGeneration that adds the winner to the history at once.
WinnersAtStart_recorded(final, userName) ==
  <<[number |-> final,
     user |-> IF userName = "" THEN "Random Guest" ELSE userName]>> \o winners

\* "We will add to history only after animation finishes": startGeneration
\* itself leaves the winners log alone.
WinnersAtStart(final, userName) == winners

\* A startGeneration that leaves the previous result on the stage.
Prologue_keepsResult ==
  /\ UNCHANGED <<finalNumber, finalUser>>
  /\ stoppedDigits' = <<>>
  /\ animatingDigits' = initialDigits

\* The part of startGeneration every call that passes the guard runs first.
Prologue ==
  /\ finalNumber' = <<>>
  /\ finalUser' = ""
  /\ stoppedDigits' = <<>>
  /\ animatingDigits' = initialDigits

\* The rest of startGeneration once the winning value is known: one spin
\* interval per slot (handle k for slot k - 1) and the stop timeouts.
Reveal(mode, final, userName) ==
  /\ Prologue
  /\ isGenerating' = TRUE
  /\ intervalRefs' = [k \in 1..settings.digits |-> k]
  /\ activeIntervals' = ClearIntervals \cup (1..settings.digits)
  /\ clock' = 0
  /\ timeouts' = [k \in 1..Len(timeouts) |->
                    [timeouts[k] EXCEPT !.due = timeouts[k].due - clock]]
                  \o StopTimeouts(final, userName)
  /\ draw' = [mode |-> mode, final |-> final, userName |-> userName,
              excluded |-> WinnerNumbers, digits |-> settings.digits,
              minValue |-> settings.minValue, maxValue |-> settings.maxValue,
              generatingTime |-> settings.generatingTime,
              digitStopDelay |-> settings.digitStopDelay]
  /\ stopAt' = <<>>
  /\ settleAt' = <<>>
  /\ resetInFlight' = FALSE
  /\ winners' = WinnersAtStart(final, userName)
  /\ winnerIds' = [k \in 1..Len(winnerIds) |-> winnerIds[k] - clock]
  /\ waited' = 0
  /\ op' = "startGeneration"
  /\ outcome' = "ok"
  /\ UNCHANGED <<settings, entries, sampler, isSoundEnabled>>

\* The roster branch taken only while more than one entry remains.
UseRoster_moreThanOne == Len(remainingEntries) > 1

\* if (remainingEntries.length > 0): draw from the roster, else from the range.
UseRoster == Len(remainingEntries) > 0

\* A call while a draw is running.
startGenerationRunning ==
  /\ AlreadyRunning
  /\ op' = "startGeneration"
  /\ outcome' = "AlreadyRunning"
  /\ UNCHANGED <<settings, entries, remainingEntries, isGenerating, finalNumber,
                 finalUser, animatingDigits, stoppedDigits, winners,
                 intervalRefs, activeIntervals, timeouts, clock, remainingPos,
                 drawnPos, draw, stopAt, settleAt, resetInFlight, sampler,
                 isSoundEnabled, winnerIds, waited>>

\* A call that draws from the roster; index is
\* Math.floor(Math.random() * remainingEntries.length).
startGenerationRoster ==
  /\ ~AlreadyRunning
  /\ UseRoster
  /\ Len(winners) < MaxWinners
  /\ \E index \in 0..(Len(remainingEntries) - 1) :
       LET luckyEntry == remainingEntries[index + 1]
       IN  /\ remainingEntries' = filterOut(remainingEntries, index)
           /\ remainingPos' = filterOut(remainingPos, index)
           /\ drawnPos' = Append(drawnPos, remainingPos[index + 1])
           /\ Reveal("roster", format(luckyEntry.number), luckyEntry.user)

\* A call that draws from the range.
startGenerationRange ==
  /\ ~AlreadyRunning
  /\ ~UseRoster
  /\ Len(winners) < MaxWinners
  /\ \E randomFinal \in generateRandomNumber(WinnerNumbers) \ {Null} :
       Reveal("range", randomFinal, "")
  /\ UNCHANGED <<remainingEntries, remainingPos, drawnPos, sampler,
                 isSoundEnabled>>

\* A call in which generateRandomNumber returns null: the alert, then
\* setIsGenerating(false) and return.
startGenerationExhausted ==
  /\ ~AlreadyRunning
  /\ ~UseRoster
  /\ Null \in generateRandomNumber(WinnerNumbers)
  /\ Prologue
  /\ activeIntervals' = ClearIntervals
  /\ intervalRefs' = <<>>
  /\ isGenerating' = FALSE
  /\ op' = "startGeneration"
  /\ outcome' = "Exhausted"
  /\ UNCHANGED <<settings, entries, remainingEntries, winners, timeouts, clock,
                 remainingPos, drawnPos, draw, stopAt, settleAt, resetInFlight,
                 sampler, isSoundEnabled, winnerIds, waited>>

-----------------------------------------------------------------------------
(* Timer callbacks *)

\* The spin tick of the interval with handle id (slot id - 1); digit is
\* Math.floor(Math.random() * 10).
Tick(id, digit) ==
  /\ id \in activeIntervals
  /\ animatingDigits' = ArraySet(animatingDigits, id - 1, digit)
  /\ animatingDigits' # animatingDigits
  /\ op' = "tick"
  /\ outcome' = "none"
  /\ UNCHANGED <<settings, entries, remainingEntries, isGenerating, finalNumber,
                 finalUser, stoppedDigits, winners, intervalRefs,
                 activeIntervals, timeouts, clock, remainingPos, drawnPos, draw,
                 stopAt, settleAt, resetInFlight, sampler, isSoundEnabled,
                 winnerIds, waited>>

\* The timeout the browser runs next: the earliest due, the first created
\* among equals.
NextTimeout ==
  CHOOSE k \in 1..Len(timeouts) :
    \A j \in 1..Len(timeouts) :
      \/ timeouts[k].due < timeouts[j].due
      \/ (timeouts[k].due = timeouts[j].due /\ k <= j)

\* A stop callback whose delay is read from the settings when it fires.
DueOf_liveSettings(t) == IF t.kind = "stop" THEN StopDelay(t.i) ELSE t.due

\* The time a timeout is due: the delay setTimeout was given, counted from the
\* time of the call.
DueOf(t) == t.due

\* The time a callback runs: when it is due, or now if that time has passed.
RunTime(t) == Max(clock, DueOf(t))

\* A stop callback that leaves its interval running.
StopInterval_none(i) == activeIntervals

\* if (intervalRefs.current[i]) clearInterval(intervalRefs.current[i]);
StopInterval(i) ==
  IF At(intervalRefs, i) # Undefined
  THEN activeIntervals \ {At(intervalRefs, i)}
  ELSE activeIntervals

\* A stop callback that never schedules the settle.
AfterStop_never(t) == <<>>

\* if (i === 0) setTimeout(..., 200): the settle timeout the stop callback of
\* slot 0 creates.
AfterStop(t) ==
  IF t.i = 0
  THEN <<[kind |-> "settle", i |-> 0, due |-> RunTime(t) + SettleDelay,
          final |-> t.final, userName |-> t.userName]>>
  ELSE <<>>

\* id: Date.now().toString(), read in a settle callback that runs at time now.
newId(now) == now

\* const newWinner = { number: final, user: userName || 'Random Guest' }
newWinner(final, userName) ==
  [number |-> final,
   user |-> IF userName = "" THEN "Random Guest" ELSE userName]

\* A settle that puts the record at the end of the log.
addWinner_atEnd(w) == Append(winners, w)

\* setWinners(prev => [newWinner, ...prev])
addWinner(w) == <<w>> \o winners

\* The stop callback of slot t.i.
Stop ==
  /\ Len(timeouts) > 0
  /\ LET k == NextTimeout
         t == timeouts[k]
         i == t.i
         finalDigits == t.final
     IN  /\ t.kind = "stop"
         /\ clock' = RunTime(t)
         /\ activeIntervals' = StopInterval(i)
         /\ animatingDigits' = ArraySet(animatingDigits, i, At(finalDigits, i))
         /\ stoppedDigits' = Append(stoppedDigits, i)
         /\ timeouts' = RemoveAt(timeouts, k - 1) \o AfterStop(t)
         /\ stopAt' = Append(stopAt, <<i, DueOf(t)>>)
  /\ waited' = 0
  /\ op' = "stop"
  /\ outcome' = "none"
  /\ UNCHANGED <<settings, entries, remainingEntries, isGenerating, finalNumber,
                 finalUser, winners, intervalRefs, remainingPos, drawnPos, draw,
                 settleAt, resetInFlight, sampler, isSoundEnabled, winnerIds>>

\* The settle callback, due SettleDelay after slot 0 stopped.
Settle ==
  /\ Len(timeouts) > 0
  /\ LET k == NextTimeout
         t == timeouts[k]
     IN  /\ t.kind = "settle"
         /\ clock' = RunTime(t)
         /\ finalNumber' = t.final
         /\ finalUser' = t.userName
         /\ isGenerating' = FALSE
         /\ winners' = addWinner(newWinner(t.final, t.userName))
         /\ winnerIds' = <<newId(RunTime(t))>> \o winnerIds
         /\ timeouts' = RemoveAt(timeouts, k - 1)
         /\ settleAt' = <<RunTime(t)>>
  /\ waited' = 0
  /\ op' = "settle"
  /\ outcome' = "none"
  /\ UNCHANGED <<settings, entries, remainingEntries, animatingDigits,
                 stoppedDigits, intervalRefs, activeIntervals, remainingPos,
                 drawnPos, draw, stopAt, resetInFlight, sampler,
                 isSoundEnabled>>

-----------------------------------------------------------------------------
(* Time that passes while no handler or callback runs *)

\* The browser is busy when the next timeout is due: the clock reaches late ms
\* past its due time before the callback gets its turn.
Busy(late) ==
  /\ Len(timeouts) > 0
  /\ clock < DueOf(timeouts[NextTimeout]) + late
  /\ clock' = DueOf(timeouts[NextTimeout]) + late
  /\ op' = "busy"
  /\ outcome' = "none"
  /\ UNCHANGED <<settings, entries, remainingEntries, isGenerating, finalNumber,
                 finalUser, animatingDigits, stoppedDigits, winners,
                 intervalRefs, activeIntervals, timeouts, remainingPos,
                 drawnPos, draw, stopAt, settleAt, resetInFlight, sampler,
                 isSoundEnabled, winnerIds, waited>>

\* Time passes while no timeout is due: the user lets ms pass before the next
\* click, at most MaxIdle in all since the last callback or accepted request.
Wait(ms) ==
  /\ waited + ms <= MaxIdle
  /\ Len(timeouts) > 0 => clock + ms <= DueOf(timeouts[NextTimeout])
  /\ clock' = clock + ms
  /\ waited' = waited + ms
  /\ op' = "wait"
  /\ outcome' = "none"
  /\ UNCHANGED <<settings, entries, remainingEntries, isGenerating, finalNumber,
                 finalUser, animatingDigits, stoppedDigits, winners,
                 intervalRefs, activeIntervals, timeouts, remainingPos,
                 drawnPos, draw, stopAt, settleAt, resetInFlight, sampler,
                 isSoundEnabled, winnerIds>>

-----------------------------------------------------------------------------
(* Sound toggle *)

\* The sound button: setIsSoundEnabled(!isSoundEnabled).  The effect that
\* depends on isSoundEnabled is run again, and its cleanup runs first:
\* intervalRefs.current.forEach(interval => clearInterval(interval)).
toggleSound ==
  /\ isSoundEnabled' = ~isSoundEnabled
  /\ activeIntervals' = ClearIntervals
  /\ op' = "toggleSound"
  /\ outcome' = "none"
  /\ UNCHANGED <<settings, entries, remainingEntries, isGenerating, finalNumber,
                 finalUser, animatingDigits, stoppedDigits, winners,
                 intervalRefs, timeouts, clock, remainingPos, drawnPos, draw,
                 stopAt, settleAt, resetInFlight, sampler, winnerIds, waited>>

-----------------------------------------------------------------------------
(* generateRandomNumber, statement by statement *)

\* The engine's fields while a call of generateRandomNumber is followed.
engine == <<settings, entries, remainingEntries, isGenerating, finalNumber,
            finalUser, animatingDigits, stoppedDigits, winners, intervalRefs,
            activeIntervals, timeouts, clock, remainingPos, drawnPos, draw,
            stopAt, settleAt, resetInFlight, isSoundEnabled, winnerIds, waited>>

\* The component with some settings, at a call generateRandomNumber(excludedNumbers).
InitSampler ==
  /\ settings \in SamplerSettings
  /\ \E excludedNumbers \in ExcludedLists :
       sampler = [NotCalled EXCEPT !.pc = "called",
                                   !.excludedNumbers = excludedNumbers]
  /\ entries = <<>>
  /\ remainingEntries = <<>>
  /\ isGenerating = FALSE
  /\ finalNumber = <<>>
  /\ finalUser = ""
  /\ animatingDigits = <<>>
  /\ stoppedDigits = <<>>
  /\ winners = <<>>
  /\ intervalRefs = <<>>
  /\ activeIntervals = {}
  /\ timeouts = <<>>
  /\ clock = 0
  /\ op = "init"
  /\ outcome = "none"
  /\ remainingPos = <<>>
  /\ drawnPos = <<>>
  /\ draw = NoDraw
  /\ stopAt = <<>>
  /\ settleAt = <<>>
  /\ resetInFlight = FALSE
  /\ isSoundEnabled = TRUE
  /\ winnerIds = <<>>
  /\ waited = 0

\* A loop test that lets one more iteration through.
ContinueLoop_offByOne(attempts) == attempts <= MaxAttempts

\* while (attempts < 1000)
ContinueLoop(attempts) == attempts < MaxAttempts

\* The count check returns null: if (excludedNumbers.length >= totalPossible).
samplerAllDrawn ==
  /\ sampler.pc = "called"
  /\ allDrawn(sampler.excludedNumbers)
  /\ sampler' = [sampler EXCEPT !.pc = "returned", !.result = Null]
  /\ op' = "generateRandomNumber"
  /\ UNCHANGED <<engine, outcome>>

\* The count check passes: let attempts = 0.
samplerEnterLoop ==
  /\ sampler.pc = "called"
  /\ ~allDrawn(sampler.excludedNumbers)
  /\ sampler' = [sampler EXCEPT !.pc = "loop", !.attempts = 0]
  /\ op' = "generateRandomNumber"
  /\ UNCHANGED <<engine, outcome>>

\* One iteration of the loop, num being
\* Math.floor(Math.random() * (maxValue - minValue + 1)) + minValue.
samplerAttempt(num) ==
  /\ sampler.pc = "loop"
  /\ ContinueLoop(sampler.attempts)
  /\ LET formatted == format(num)
     IN  sampler' =
           IF ~includes(sampler.excludedNumbers, formatted)
           THEN [sampler EXCEPT !.pc = "returned", !.result = formatted,
                                !.tries = sampler.tries + 1]
           ELSE [sampler EXCEPT !.attempts = sampler.attempts + 1,
                                !.tries = sampler.tries + 1]
  /\ op' = "generateRandomNumber"
  /\ UNCHANGED <<engine, outcome>>

\* The loop ends without a value: return null.
samplerGiveUp ==
  /\ sampler.pc = "loop"
  /\ ~ContinueLoop(sampler.attempts)
  /\ sampler' = [sampler EXCEPT !.pc = "returned", !.result = Null]
  /\ op' = "generateRandomNumber"
  /\ UNCHANGED <<engine, outcome>>

NextSampler ==
  \/ samplerAllDrawn
  \/ samplerEnterLoop
  \/ \E num \in settings.minValue..settings.maxValue : samplerAttempt(num)
  \/ samplerGiveUp

\* A call that has started keeps executing.
SpecSampler == InitSampler /\ [][NextSampler]_vars /\ WF_vars(NextSampler)

-----------------------------------------------------------------------------

NextWith(inputs) ==
  \/ \E kv \in inputs : handleSettingChange(kv[1], kv[2])
  \/ \E validEntries \in Rosters : handleExcelUpload(validEntries)
  \/ clearHistory
  \/ resetToDefaults
  \/ startGenerationRunning
  \/ startGenerationRoster
  \/ startGenerationRange
  \/ startGenerationExhausted
  \/ \E id \in activeIntervals, digit \in TickDigits : Tick(id, digit)
  \/ Stop
  \/ Settle

\* The engine under changes of the range settings.
Next == NextWith(SettingInputs)
Spec == Init /\ [][Next]_vars

\* Range draws under changes of the timing settings, with resets and history
\* clears, in a browser that can be busy when a timeout is due.
NextTiming ==
  \/ \E kv \in TimingInputs : handleSettingChange(kv[1], kv[2])
  \/ clearHistory
  \/ resetToDefaults
  \/ startGenerationRunning
  \/ startGenerationRange
  \/ startGenerationExhausted
  \/ \E id \in activeIntervals, digit \in TickDigits : Tick(id, digit)
  \/ Stop
  \/ Settle
  \/ \E late \in 1..MaxLate : Busy(late)
SpecTiming == Init /\ [][NextTiming]_vars

\* The browser runs every timeout that is due: the stop and settle callbacks
\* are not postponed for ever.
TimersFire == WF_vars(Stop) /\ WF_vars(Settle)
NextProgress == NextWith(ProgressInputs)
SpecFair == Init /\ [][NextProgress]_vars /\ TimersFire

\* Range draws whose settings are edited at any time, also while a draw is
\* running; no roster is loaded (a loaded roster disables the range inputs)
\* and nothing is reset or cleared.
NextConfig ==
  \/ \E kv \in ConfigInputs : handleSettingChange(kv[1], kv[2])
  \/ startGenerationRunning
  \/ startGenerationRange
  \/ startGenerationExhausted
  \/ \E id \in activeIntervals, digit \in TickDigits : Tick(id, digit)
  \/ Stop
  \/ Settle
SpecConfig == Init /\ [][NextConfig]_vars

\* The engine under ranges wider than the slot count.
NextWide == NextWith(WideInputs)
SpecWide == Init /\ [][NextWide]_vars

\* The engine under rosters that are loaded, replaced and cleared.
NextRoster ==
  \/ \E kv \in ProgressInputs : handleSettingChange(kv[1], kv[2])
  \/ \E validEntries \in RosterInputs : handleExcelUpload(validEntries)
  \/ clearData
  \/ resetToDefaults
  \/ startGenerationRunning
  \/ startGenerationRoster
  \/ startGenerationRange
  \/ startGenerationExhausted
  \/ \E id \in activeIntervals, digit \in TickDigits : Tick(id, digit)
  \/ Stop
  \/ Settle
SpecRoster == Init /\ [][NextRoster]_vars

\* Range draws, also draws whose left slots stop first, with resets and
\* history clears, spin ticks, late callbacks and waits.
NextIds ==
  \/ \E kv \in IdInputs : handleSettingChange(kv[1], kv[2])
  \/ clearHistory
  \/ resetToDefaults
  \/ startGenerationRunning
  \/ startGenerationRange
  \/ startGenerationExhausted
  \/ \E id \in activeIntervals, digit \in TickDigits : Tick(id, digit)
  \/ Stop
  \/ Settle
  \/ \E late \in 1..MaxLate : Busy(late)
  \/ \E ms \in 1..MaxIdle : Wait(ms)
SpecIds == Init /\ [][NextIds]_vars

\* The engine with the sound button.
NextSound ==
  \/ \E kv \in ProgressInputs : handleSettingChange(kv[1], kv[2])
  \/ \E validEntries \in Rosters : handleExcelUpload(validEntries)
  \/ resetToDefaults
  \/ toggleSound
  \/ startGenerationRunning
  \/ startGenerationRoster
  \/ startGenerationRange
  \/ startGenerationExhausted
  \/ \E id \in activeIntervals, digit \in TickDigits : Tick(id, digit)
  \/ Stop
  \/ Settle
SpecSound == Init /\ [][NextSound]_vars

-----------------------------------------------------------------------------
(* Claims *)

Range(seq) == {seq[k] : k \in 1..Len(seq)}

\* C1: between ingestions and resets, every accepted roster draw removes
\* exactly the drawn entry from remainingEntries: the entries drawn and the
\* entries remaining partition the roster by position, the remaining subset is
\* one shorter for every draw, and no position is drawn twice.
C1_NoRosterEntryTwice ==
  /\ Len(remainingPos) = Len(remainingEntries)
  /\ \A k \in 1..Len(remainingEntries) :
       /\ remainingPos[k] \in 1..Len(entries)
       /\ remainingEntries[k] = entries[remainingPos[k]]
  /\ \A a, b \in 1..Len(drawnPos) : a # b => drawnPos[a] # drawnPos[b]
  /\ Range(drawnPos) \cap Range(remainingPos) = {}
  /\ Len(drawnPos) + Len(remainingEntries) = Len(entries)

\* Two roster entries with the same number and owner have both been drawn.
C1_Witness ==
  /\ Len(drawnPos) = 2
  /\ Len(remainingEntries) = 1
  /\ entries[drawnPos[1]] = entries[drawnPos[2]]
  /\ draw.mode = "roster"
  /\ op = "startGeneration"

\* C2: the winning value of a range-mode draw is not among the numbers of the
\* winners log as passed to generateRandomNumber when the draw started.
C2_ExclusionRespected ==
  draw.mode = "range" =>
    \A k \in 1..Len(draw.excluded) : draw.excluded[k] # draw.final

\* A range-mode draw has completed whose range held an excluded value.
C2_Witness ==
  /\ op = "settle"
  /\ draw.mode = "range"
  /\ ~resetInFlight
  /\ finalNumber = draw.final
  /\ \E k \in 1..Len(draw.excluded) :
       \E n \in draw.minValue..draw.maxValue :
         padStart(toString(n), draw.digits) = draw.excluded[k]

\* C3: after a draw settles, the displayed slots, read left to right, are the
\* winning value: finalNumber and the number of the record put at the front
\* of the winners log.
C3_DisplayIsWinningValue ==
  op = "settle" =>
    /\ finalNumber = draw.final
    /\ winners[1].number = draw.final
    /\ animatingDigits = draw.final

\* C4: startGeneration called while a draw is running changes nothing: the
\* session status, slots, stopped set, final value and owner, roster, winners
\* log, timers and settings are as before, and the call reports AlreadyRunning.
C4_RunningCallIsNoOp ==
  [][(isGenerating /\ op' = "startGeneration") =>
       /\ outcome' = "AlreadyRunning"
       /\ UNCHANGED <<session, settings, clock>>]_vars

\* A call was rejected while spin intervals and stop timeouts were pending.
C4_Witness ==
  /\ op = "startGeneration"
  /\ outcome = "AlreadyRunning"
  /\ isGenerating
  /\ activeIntervals # {}
  /\ Len(timeouts) > 0
  /\ Len(stoppedDigits) > 0

\* C5: a draw that was reset while in flight never adds a record to the
\* winners log: the log, emptied by the reset, stays empty until another draw
\* is accepted.
C5_ResetDrawNotRecorded == resetInFlight => winners = <<>>

\* C6: right after resetToDefaults the session is Idle (isGenerating false),
\* so that a draw request is accepted.
C6_IdleAfterReset == op = "resetToDefaults" => ~isGenerating

\* C7: after a reset no callback of the draw that was in flight changes slot
\* state: animatingDigits and stoppedDigits stay empty and finalNumber and
\* finalUser stay empty until the next draw is started.
C7_NoStaleCallback ==
  resetInFlight =>
    /\ animatingDigits = <<>>
    /\ stoppedDigits = <<>>
    /\ finalNumber = <<>>
    /\ finalUser = ""

\* C8: in a draw accepted at time 0 with digitCount slots, the stop callback of
\* slot i is due at generatingTime + (digitCount - 1 - i) * digitStopDelay and
\* runs at that time, or as soon as a busy browser lets it and never earlier;
\* each slot stops once; the stop of slot 0 schedules the settle 200 after the
\* time it ran, and the settle runs at that time (or as soon as the browser
\* lets it) when every slot has stopped.
C8_StaggerTimes ==
  [][/\ (op' = "startGeneration" /\ outcome' = "ok") => clock' = 0
     /\ op' = "stop" =>
          LET i == stopAt'[Len(stopAt')][1]
              due == draw.generatingTime
                       + (draw.digits - 1 - i) * draw.digitStopDelay
          IN  /\ i \in 0..(draw.digits - 1)
              /\ \A k \in 1..Len(stopAt) : stopAt[k][1] # i
              /\ stopAt'[Len(stopAt')][2] = due
              /\ clock' = (IF clock > due THEN clock ELSE due)
              /\ i = 0 =>
                    \E k \in 1..Len(timeouts') :
                      /\ timeouts'[k].kind = "settle"
                      /\ timeouts'[k].due = clock' + 200
     /\ op' = "settle" =>
          /\ Len(stopAt) = draw.digits
          /\ \E k \in 1..Len(timeouts) :
               /\ timeouts[k].kind = "settle"
               /\ clock' = (IF clock > timeouts[k].due THEN clock
                            ELSE timeouts[k].due)
          /\ settleAt' = <<clock'>>]_vars

\* digitCount = 3, generatingTime = 1000, digitStopDelay = 300: the stops are
\* due at 1000 (slot 2), 1300 (slot 1), 1600 (slot 0), and with slot 0 stopped
\* on time the settle runs at 1800.
C8_Witness ==
  /\ draw.digits = 3 /\ draw.generatingTime = 1000 /\ draw.digitStopDelay = 300
  /\ stopAt = << <<2, 1000>>, <<1, 1300>>, <<0, 1600>> >>
  /\ settleAt = <<1800>>
  /\ op = "settle"

\* C9: a draw request in range mode (remaining subset empty) with at least
\* maxValue - minValue + 1 excluded values is rejected as Exhausted and leaves
\* the session Idle: isGenerating false, no timer scheduled, no winner added.
C9_ExhaustedByCount ==
  [][(/\ op' = "startGeneration"
      /\ ~isGenerating
      /\ Len(remainingEntries) = 0
      /\ Len(winners) >= settings.maxValue - settings.minValue + 1) =>
       /\ outcome' = "Exhausted"
       /\ ~isGenerating'
       /\ timeouts' = <<>>
       /\ activeIntervals' = {}
       /\ winners' = winners]_vars

\* minValue = 0, maxValue = 1, digitCount = 1 and the log holding "0" and "1":
\* the request was rejected as Exhausted.
C9_Witness ==
  /\ op = "startGeneration"
  /\ outcome = "Exhausted"
  /\ settings.minValue = 0 /\ settings.maxValue = 1 /\ settings.digits = 1
  /\ Range(WinnerNumbers) = {<<0>>, <<1>>}
  /\ Len(remainingEntries) = 0

\* C10: a draw request rejected as Exhausted leaves the session as it was:
\* status, slots, stopped set, settled value and owner, roster, winners log
\* and timers.
C10_ExhaustedIsNoOp ==
  [][(op' = "startGeneration" /\ outcome' = "Exhausted") =>
       UNCHANGED session]_vars

\* C11: once slot i has been stopped in a draw (i is in stoppedDigits) it
\* shows character i of the winning value and its spin interval is dead, and
\* no tick changes the digit of a stopped slot, under every interleaving of
\* tick and stop callbacks.
C11_StopIsFinal ==
  /\ [](\A k \in 1..Len(stoppedDigits) :
          LET i == stoppedDigits[k]
          IN  /\ At(animatingDigits, i) = At(draw.final, i)
              /\ At(intervalRefs, i) = Undefined
                   \/ At(intervalRefs, i) \notin activeIntervals)
  /\ [][op' = "tick" =>
          \A k \in 1..Len(stoppedDigits) :
            At(animatingDigits', stoppedDigits[k])
              = At(animatingDigits, stoppedDigits[k])]_vars

\* A tick of another slot ran after a slot had stopped on a digit that no
\* tick has left there.
C11_Witness ==
  /\ op = "tick"
  /\ isGenerating
  /\ ~resetInFlight
  /\ Len(stoppedDigits) = 1
  /\ activeIntervals # {}
  /\ \E j \in 0..(draw.digits - 1) :
       /\ j \notin Range(stoppedDigits)
       /\ At(animatingDigits, j) # 0
       /\ At(animatingDigits, j) # At(draw.final, j)

\* C12: the settle callback of a draw that was not reset runs once (no
\* timeout of the draw is left behind it) and puts one record at the front of
\* the winners log, with the sampled value and the roster owner, or "Random
\* Guest" when the draw has no owner; the records already there follow it in
\* their order.
C12_SettleRecordsOnce ==
  [][(op' = "settle" /\ ~resetInFlight) =>
       /\ winners' =
            <<[number |-> draw.final,
               user |-> IF draw.mode = "roster" /\ draw.userName # ""
                        THEN draw.userName ELSE "Random Guest"]>> \o winners
       /\ settleAt = <<>>
       /\ timeouts' = <<>>
       /\ ~isGenerating']_vars

\* A roster draw settled in front of the record of a range draw.
C12_Witness ==
  /\ op = "settle"
  /\ ~resetInFlight
  /\ Len(winners) = 2
  /\ winners[1].user = "Binh"
  /\ winners[1].number = <<4, 2>>
  /\ winners[2].user = "Random Guest"

\* C13: when timers fire and the draw is not reset, every accepted draw
\* settles: all its slots are stopped, the final value is the winning value
\* and non-empty, and the session is Idle again.
C13_DrawSettles ==
  (op = "startGeneration" /\ outcome = "ok") ~>
    \/ resetInFlight
    \/ /\ op = "settle"
       /\ ~isGenerating
       /\ finalNumber = draw.final /\ finalNumber # <<>>
       /\ Range(stoppedDigits) = 0..(draw.digits - 1)
       /\ timeouts = <<>>

\* A three-slot draw has settled with every slot stopped.
C13_Witness ==
  /\ op = "settle"
  /\ ~resetInFlight
  /\ ~isGenerating
  /\ draw.digits = 3
  /\ stoppedDigits = <<2, 1, 0>>
  /\ finalNumber = draw.final

\* C14: the exclusion set of range-mode draws (the numbers of the winners
\* log, as startGeneration passes them to generateRandomNumber) only grows
\* between resets, clearing the history included, and a range-mode draw does
\* not repeat the value of the range-mode draw settled before it since the
\* last reset.
C14_ExclusionSurvivesClear ==
  [][/\ op' # "resetToDefaults" => Range(WinnerNumbers) \subseteq Range(WinnerNumbers')
     /\ (/\ op' = "startGeneration" /\ outcome' = "ok"
         /\ draw'.mode = "range" /\ draw.mode = "range"
         /\ ~resetInFlight
         /\ finalNumber = draw.final /\ finalNumber # <<>>) =>
          draw'.final # finalNumber]_vars

\* C15: while the remaining subset is non-empty, a draw request made when
\* Idle is accepted, never reported Exhausted, and its winning value and owner
\* are those of one remaining roster entry, whatever the winners log and
\* minValue/maxValue hold.
C15_RosterDrawAccepted ==
  [][(op' = "startGeneration" /\ ~isGenerating /\ Len(remainingEntries) > 0) =>
       /\ outcome' = "ok"
       /\ isGenerating'
       /\ draw'.mode = "roster"
       /\ \E k \in 1..Len(remainingEntries) :
            /\ draw'.final =
                 padStart(toString(remainingEntries[k].number), settings.digits)
            /\ draw'.userName = remainingEntries[k].user
       /\ \A k \in 1..Len(timeouts') :
            /\ timeouts'[k].final = draw'.final
            /\ timeouts'[k].userName = draw'.userName]_vars

\* A roster draw was accepted whose value was already in the winners log.
C15_Witness ==
  /\ op = "startGeneration"
  /\ outcome = "ok"
  /\ draw.mode = "roster"
  /\ draw.final \in Range(draw.excluded)
  /\ Len(remainingEntries) = 1

\* C16: settings changed while a draw is running do not affect that draw.
\* In a browser that is never busy, every stop callback runs at the time
\* computed from the settings captured
\* at draw start (generatingTime + (digits - 1 - i) * digitStopDelay), on a slot
\* of the captured slot count, and shows the captured value's digit; the
\* settle fires 200 ms after the last stop and records the captured value; a
\* settings change itself touches no slot, timer or session field.
C16_DrawUsesCapturedConfig ==
  [][/\ op' = "stop" =>
          LET i == stoppedDigits'[Len(stoppedDigits')]
          IN  /\ i \in 0..(draw.digits - 1)
              /\ clock' = draw.generatingTime
                            + (draw.digits - 1 - i) * draw.digitStopDelay
              /\ Len(animatingDigits') = draw.digits
              /\ animatingDigits'[i + 1] = draw.final[i + 1]
     /\ op' = "settle" =>
          /\ clock' = draw.generatingTime
                        + (draw.digits - 1) * draw.digitStopDelay + 200
          /\ Len(stoppedDigits) = draw.digits
          /\ finalNumber' = draw.final
          /\ winners'[1].number = draw.final
          /\ Len(draw.final) = draw.digits
     /\ op' = "handleSettingChange" =>
          UNCHANGED <<isGenerating, finalNumber, finalUser, animatingDigits,
                      stoppedDigits, winners, intervalRefs, activeIntervals,
                      timeouts, clock, draw>>]_vars

\* A draw settles after all five settings were changed under it.
C16_Witness ==
  /\ op = "settle"
  /\ settings.digits # draw.digits
  /\ settings.minValue # draw.minValue
  /\ settings.maxValue # draw.maxValue
  /\ settings.generatingTime # draw.generatingTime
  /\ settings.digitStopDelay # draw.digitStopDelay

\* C17: tick and stop callbacks change only slot state: the winners log, the
\* roster and its remaining subset, the session status and the final
\* value/owner are as before.  The winners log grows only in the settle
\* callback, by one record; and while the roster stays loaded its remaining
\* subset shrinks only in an accepted startGeneration, by one entry.
C17_OnlySlotStateDuringReveal ==
  [][/\ op' \in {"tick", "stop"} =>
          UNCHANGED <<winners, entries, remainingEntries, isGenerating,
                      finalNumber, finalUser, settings>>
     /\ Len(winners') > Len(winners) =>
          /\ op' = "settle"
          /\ Len(winners') = Len(winners) + 1
     /\ (entries' = entries /\ Len(remainingEntries') < Len(remainingEntries)) =>
          /\ op' = "startGeneration"
          /\ outcome' = "ok"
          /\ ~isGenerating
          /\ Len(remainingEntries') = Len(remainingEntries) - 1]_vars

\* A slot of a roster draw has just stopped, with a record already in the log
\* and entries still to draw.
C17_Witness ==
  /\ op = "stop"
  /\ isGenerating
  /\ draw.mode = "roster"
  /\ Len(winners) > 0
  /\ Len(remainingEntries) > 0

\* C18: every call of generateRandomNumber returns, after at most 1000
\* iterations of its loop; what it returns is null or the formatted value of a
\* number of the range that is not in the exclusion list, and null only when
\* the count check fails or a sample can hit the exclusion list.
C18_SamplerReturns ==
  /\ [](/\ sampler.tries <= 1000
        /\ sampler.pc = "returned" =>
             \/ /\ sampler.result = Null
                /\ Null \in generateRandomNumber(sampler.excludedNumbers)
             \/ /\ \A k \in 1..Len(sampler.excludedNumbers) :
                     sampler.excludedNumbers[k] # sampler.result
                /\ \E n \in settings.minValue..settings.maxValue :
                     sampler.result = padStart(toString(n), settings.digits))
  /\ (sampler.pc = "called") ~> (sampler.pc = "returned")

\* A call gives up after 1000 misses although a number of the range is free.
C18_Witness ==
  /\ sampler.pc = "returned"
  /\ sampler.result = Null
  /\ sampler.tries = 1000
  /\ \E n \in settings.minValue..settings.maxValue :
       ~includes(sampler.excludedNumbers, format(n))

\* C19: right after resetToDefaults, whatever the state it ran in, the roster
\* and its remaining subset are empty, the settings are digits 3, minValue 0,
\* maxValue 999, generatingTime 1500 and digitStopDelay 300, the winners log is
\* empty, the slot array and the stopped set are empty, and the final value and
\* owner are empty.
C19_ResetRestoresDefaults ==
  op = "resetToDefaults" =>
    /\ entries = <<>>
    /\ remainingEntries = <<>>
    /\ settings.digits = 3
    /\ settings.minValue = 0
    /\ settings.maxValue = 999
    /\ settings.generatingTime = 1500
    /\ settings.digitStopDelay = 300
    /\ winners = <<>>
    /\ animatingDigits = <<>>
    /\ stoppedDigits = <<>>
    /\ finalNumber = <<>>
    /\ finalUser = ""

\* The reset ran during a roster draw that started with a record in the log
\* and with a digit count other than the default.
C19_Witness ==
  /\ op = "resetToDefaults"
  /\ resetInFlight
  /\ draw.mode = "roster"
  /\ draw.excluded # <<>>
  /\ draw.digits # 3
  /\ Len(timeouts) > 0

\* C20: clearHistory empties the winners log and changes nothing else: the
\* settings, the roster and its remaining subset, the session status, the
\* slots and the stopped set, the final value and owner, and the intervals and
\* pending timeouts of a running draw are as before.
C20_ClearHistoryOnlyLog ==
  [][op' = "clearHistory" =>
       /\ winners' = <<>>
       /\ UNCHANGED <<settings, entries, remainingEntries, isGenerating,
                      finalNumber, finalUser, animatingDigits, stoppedDigits,
                      intervalRefs, activeIntervals, timeouts, clock>>]_vars

\* The log was cleared in the middle of a roster draw, after its first slot
\* stopped.
C20_Witness ==
  /\ op = "clearHistory"
  /\ isGenerating
  /\ Len(timeouts) > 0
  /\ stoppedDigits # <<>>
  /\ Len(remainingEntries) > 0

\* C21: slots stop strictly right to left: in every state of a running draw
\* stoppedDigits lists the slots digits - 1, digits - 2, ... in that order, so
\* that a stopped slot has every slot to its right stopped too.
C21_StopsRightToLeft ==
  isGenerating =>
    /\ Len(stoppedDigits) <= draw.digits
    /\ \A k \in 1..Len(stoppedDigits) : stoppedDigits[k] = draw.digits - k

\* C22: the final value and owner are not observable before settle: while a
\* draw is running finalNumber and finalUser are empty, and they become the
\* draw's value and owner only in a settle step, the step in which
\* isGenerating turns false.
C22_FinalOnlyAtSettle ==
  /\ [](isGenerating => (finalNumber = <<>> /\ finalUser = ""))
  /\ [][(finalNumber' # <<>> /\ finalNumber' # finalNumber) \/
        (finalUser' # "" /\ finalUser' # finalUser) =>
          /\ op' = "settle"
          /\ isGenerating /\ ~isGenerating'
          /\ finalNumber' = draw.final
          /\ finalUser' = draw.userName]_vars

\* The second draw of a session, a roster draw, has just settled on its owner.
C22_Witness ==
  /\ op = "settle"
  /\ Len(winners) = 2
  /\ finalUser # ""
  /\ finalNumber = draw.final

\* C23: while a draw is running (and has not been reset), the spin interval of
\* every slot that has not been stopped is live, whatever else happens in the
\* component; a live interval is cancelled only by the stop callback of its
\* slot or by a reset.
C23_SpinsUntilStopped ==
  /\ []((isGenerating /\ ~resetInFlight) =>
          \A i \in 0..(draw.digits - 1) :
            (\A k \in 1..Len(stoppedDigits) : stoppedDigits[k] # i) =>
              (i + 1) \in activeIntervals)
  /\ [][\A id \in activeIntervals \ activeIntervals' :
          \/ op' = "resetToDefaults"
          \/ op' = "stop" /\ stoppedDigits'[Len(stoppedDigits')] = id - 1]_vars

\* C24: the slot array is discarded at settle time: right after the settle
\* callback animatingDigits and stoppedDigits are empty, and they stay empty
\* while no draw request is made.
C24_SlotsDiscardedAtSettle ==
  /\ [](op = "settle" => (animatingDigits = <<>> /\ stoppedDigits = <<>>))
  /\ [][(~isGenerating /\ animatingDigits = <<>> /\ stoppedDigits = <<>>
         /\ op' # "startGeneration") =>
          (animatingDigits' = <<>> /\ stoppedDigits' = <<>>)]_vars

\* C25: the winning value of an accepted range-mode draw is the decimal
\* representation of an integer n with minValue <= n <= maxValue, padded on
\* the left with zeros to at least digitCount characters, and the draw has no
\* owner: at settle finalUser is empty and the record's user is "Random Guest".
C25_RangeValue ==
  /\ [][(op' = "startGeneration" /\ outcome' = "ok" /\ draw'.mode = "range") =>
          LET n == toNumber(draw'.final)
          IN  /\ settings.minValue <= n /\ n <= settings.maxValue
              /\ draw'.final = padStart(toString(n), settings.digits)
              /\ Len(draw'.final) >= settings.digits
              /\ Len(draw'.final) = Max(settings.digits, Len(toString(n)))
              /\ draw'.userName = ""]_vars
  /\ [][(op' = "settle" /\ draw.mode = "range") =>
          /\ finalNumber' = draw.final
          /\ finalUser' = ""
          /\ winners'[1] = [number |-> draw.final, user |-> "Random Guest"]]_vars

\* A range draw has settled on a value wider than the slot count.
C25_Witness ==
  /\ op = "settle"
  /\ draw.mode = "range"
  /\ Len(draw.final) > draw.digits
  /\ winners[1].user = "Random Guest"

\* C26: when a draw is accepted the slot array has exactly digitCount slots,
\* all showing '0', no slot is stopped, every spin interval that was still
\* live is one the request cancels (it is listed in intervalRefs), and
\* afterwards exactly digitCount spin intervals are live, one per slot.
C26_SlotsInitialised ==
  [][(op' = "startGeneration" /\ outcome' = "ok") =>
       /\ Len(animatingDigits') = settings.digits
       /\ \A k \in 1..settings.digits : animatingDigits'[k] = 0
       /\ stoppedDigits' = <<>>
       /\ \A id \in activeIntervals :
            \E k \in 1..Len(intervalRefs) : intervalRefs[k] = id
       /\ Cardinality(activeIntervals') = settings.digits
       /\ Len(intervalRefs') = settings.digits
       /\ \A i \in 0..(settings.digits - 1) :
            intervalRefs'[i + 1] \in activeIntervals']_vars

\* A draw was accepted while the slots of the draw before it were still on
\* the stage, with another slot count.
C26_Witness ==
  /\ op = "startGeneration"
  /\ outcome = "ok"
  /\ Len(winners) > 0
  /\ Len(winners[1].number) # draw.digits
  /\ animatingDigits = <<0>>

\* C27: when handleExcelUpload completes, entries and remainingEntries both
\* equal the loaded sequence, whatever had been loaded, drawn or left before,
\* and the winners log is as it was.
C27_IngestionReplaces ==
  [][op' = "handleExcelUpload" =>
       /\ entries' \in RosterInputs
       /\ remainingEntries' = entries'
       /\ winners' = winners]_vars

\* A roster was replaced by another one after one of its entries was drawn
\* and recorded.
C27_Witness ==
  /\ op = "handleExcelUpload"
  /\ entries = <<[number |-> 105, user |-> "Chi"]>>
  /\ remainingEntries = entries
  /\ Len(winners) > 0
  /\ winners[1].user = "An"

\* C28: the pending stop and settle callbacks belong to at most one draw: a
\* draw request made while a callback is still scheduled is rejected and
\* leaves the callbacks alone, a request is accepted only when none is
\* scheduled, and every scheduled callback carries the value and owner of the
\* last accepted draw.
C28_OneDrawsCallbacks ==
  /\ [][op' = "startGeneration" =>
          IF timeouts # <<>>
          THEN outcome' = "AlreadyRunning" /\ timeouts' = timeouts
          ELSE outcome' = "ok" =>
                 \A k \in 1..Len(timeouts') :
                   /\ timeouts'[k].final = draw'.final
                   /\ timeouts'[k].userName = draw'.userName]_vars
  /\ [](\A k \in 1..Len(timeouts) :
          /\ timeouts[k].final = draw.final
          /\ timeouts[k].userName = draw.userName)

\* C29: in range mode the count check reports exhaustion only when every
\* possible value has been drawn: a request that ends Exhausted while some
\* integer of [minValue, maxValue] has a formatted value that is not in the
\* winners log was not rejected by the count check (the log is shorter than
\* the range; the retry loop gave up).
C29_CountCheckOnlyWhenAllDrawn ==
  [][(op' = "startGeneration" /\ outcome' = "Exhausted") =>
       \/ Len(winners) < settings.maxValue - settings.minValue + 1
       \/ \A n \in settings.minValue..settings.maxValue :
            \E k \in 1..Len(winners) :
              winners[k].number = padStart(toString(n), settings.digits)]_vars

\* C30: whenever entries remain to be drawn, the number of every remaining
\* entry has at most digitCount decimal digits, and so the winning value of
\* every accepted roster-mode draw has exactly digitCount characters.
C30_RosterFitsSlots ==
  /\ [](\A k \in 1..Len(remainingEntries) :
          Len(toString(remainingEntries[k].number)) <= settings.digits)
  /\ [][(op' = "startGeneration" /\ outcome' = "ok" /\ draw'.mode = "roster") =>
          /\ Len(draw'.final) = settings.digits
          /\ Len(animatingDigits') = Len(draw'.final)]_vars

\* The one-digit number of a roster whose largest number has two digits was
\* drawn, with entries left.
C30_Witness ==
  /\ op = "startGeneration"
  /\ outcome = "ok"
  /\ draw.mode = "roster"
  /\ draw.final = <<0, 7>>
  /\ Len(remainingEntries) > 0

\* C31: the records of the winners log have pairwise distinct ids in every
\* reachable state: each record has one id, the clock value read when its
\* draw settled, and no two settles read the same value.
C31_DistinctIds ==
  /\ Len(winnerIds) = Len(winners)
  /\ \A i, j \in 1..Len(winnerIds) : i # j => winnerIds[i] # winnerIds[j]

\* The second of two draws with a digitStopDelay below 0 has settled: it was
\* requested at the settle of the first, whose stops of slots 1 and 2 were
\* still pending and ran during the second draw, and it settled 1100 ms after
\* the first.
C31_Witness ==
  /\ op = "settle"
  /\ Len(winnerIds) = 2
  /\ draw.digitStopDelay < 0
  /\ winnerIds[1] - winnerIds[2] = 1100
  /\ Len(stopAt) = 3
  /\ stopAt[1] = <<1, 100>>
  /\ stopAt[2] = <<2, 400>>

====
